---- MODULE Spec2Model ----
(***************************************************************************)
(* Model of pkg/terminal/p400/stripe_requests.go: the six remote calls of  *)
(* a Stripe Terminal P400 session (DiscoverReaders, StartNewRPCSession,    *)
(* GetNewConnectionToken, CreatePaymentIntent, CapturePaymentIntent,       *)
(* RegisterReader), each a blocking request followed by a status check and *)
(* a JSON decode.                                                          *)
(*                                                                         *)
(* Text that passes through url.Values.Encode or strconv.Itoa is a         *)
(* sequence of one-character strings, so that escaping, sorting and the    *)
(* decimal conversion are computed and not assumed.  Opaque tokens, ids    *)
(* and JSON string values are TLA+ strings.                                *)
(***************************************************************************)
EXTENDS Integers, Sequences, FiniteSets, TLC

VARIABLES
    ctx,        \* the caller's TerminalSessionContext
    pending,    \* the operation the caller has invoked and that has not returned
    last,       \* what the most recent completed call did (op "none": no call)
    threaded    \* history: the id the platform gave in the create response
                \* whose result the caller copied into ctx.PaymentIntentID

vars == <<ctx, pending, last, threaded>>

----------------------------------------------------------------------------
(* Bounds of the model *)

MaxReaders == 2     \* length of the data array in a readers response

----------------------------------------------------------------------------
(* Characters and text *)

\* The characters that occur, in ASCII order (only the order is used).
Ascii ==
    << " ", "%", "&", "+", "-", ".", "/",
       "0", "1", "2", "3", "4", "5", "6", "7", "8", "9", "=",
       "A", "B", "C", "D", "E", "F", "G", "H", "I", "J", "K", "L", "M",
       "N", "O", "P", "Q", "R", "S", "T", "U", "V", "W", "X", "Y", "Z",
       "[", "]", "_",
       "a", "b", "c", "d", "e", "f", "g", "h", "i", "j", "k", "l", "m",
       "n", "o", "p", "q", "r", "s", "t", "u", "v", "w", "x", "y", "z" >>

CodeTable ==
    [ c \in { Ascii[i] : i \in 1..Len(Ascii) } |->
        CHOOSE i \in 1..Len(Ascii) : Ascii[i] = c ]

Code(c) == CodeTable[c]

Digits == << "0", "1", "2", "3", "4", "5", "6", "7", "8", "9" >>

DigitSet == { Digits[i] : i \in 1..Len(Digits) }

Letters ==
    { "A", "B", "C", "D", "E", "F", "G", "H", "I", "J", "K", "L", "M",
      "N", "O", "P", "Q", "R", "S", "T", "U", "V", "W", "X", "Y", "Z",
      "a", "b", "c", "d", "e", "f", "g", "h", "i", "j", "k", "l", "m",
      "n", "o", "p", "q", "r", "s", "t", "u", "v", "w", "x", "y", "z" }

\* Byte-wise string comparison, as Go compares strings (sort.Strings).
RECURSIVE StrLess(_, _)
StrLess(a, b) ==
    IF b = <<>> THEN FALSE
    ELSE IF a = <<>> THEN TRUE
    ELSE IF Head(a) = Head(b) THEN StrLess(Tail(a), Tail(b))
    ELSE Code(Head(a)) < Code(Head(b))

----------------------------------------------------------------------------
(* strconv.Itoa *)

RECURSIVE FormatUint(_)
FormatUint(n) ==
    IF n < 10 THEN << Digits[n + 1] >>
    ELSE FormatUint(n \div 10) \o << Digits[(n % 10) + 1] >>

Itoa(n) == IF n < 0 THEN << "-" >> \o FormatUint(-n) ELSE FormatUint(n)

----------------------------------------------------------------------------
(* net/url: QueryEscape and Values.Encode *)

\* Percent-encoding of the reserved characters that occur.
PercentHex(c) ==
    CASE c = "%" -> << "%", "2", "5" >>
      [] c = "&" -> << "%", "2", "6" >>
      [] c = "+" -> << "%", "2", "B" >>
      [] c = "/" -> << "%", "2", "F" >>
      [] c = "=" -> << "%", "3", "D" >>
      [] c = "[" -> << "%", "5", "B" >>
      [] c = "]" -> << "%", "5", "D" >>

\* url.QueryEscape: unreserved characters stay, a space becomes "+", any
\* other byte becomes %XX.
ShouldEscape(c) == c \notin (Letters \cup DigitSet \cup { "-", "_", "." })

RECURSIVE QueryEscape(_)
QueryEscape(s) ==
    IF s = <<>> THEN <<>>
    ELSE (IF ~ShouldEscape(Head(s)) THEN << Head(s) >>
          ELSE IF Head(s) = " " THEN << "+" >>
          ELSE PercentHex(Head(s)))
         \o QueryEscape(Tail(s))

\* url.Values{}: no keys.  A Values is a function from keys to value lists.
EmptyValues == [ k \in {} |-> <<>> ]

\* Values.Set(key, value): replaces whatever the key held by the one value.
ValuesSet(v, key, value) ==
    [ k \in (DOMAIN v) \cup { key } |-> IF k = key THEN << value >> ELSE v[k] ]

MinKey(keys) == CHOOSE k \in keys : \A o \in keys \ { k } : StrLess(k, o)

RECURSIVE SortedKeys(_)
SortedKeys(keys) ==
    IF keys = {} THEN <<>>
    ELSE << MinKey(keys) >> \o SortedKeys(keys \ { MinKey(keys) })

RECURSIVE EncodeKey(_, _)
EncodeKey(key, values) ==
    IF values = <<>> THEN <<>>
    ELSE << QueryEscape(key) \o << "=" >> \o QueryEscape(Head(values)) >>
         \o EncodeKey(key, Tail(values))

RECURSIVE EncodePairs(_, _)
EncodePairs(v, keys) ==
    IF keys = <<>> THEN <<>>
    ELSE EncodeKey(Head(keys), v[Head(keys)]) \o EncodePairs(v, Tail(keys))

RECURSIVE JoinAmp(_)
JoinAmp(pairs) ==
    IF pairs = <<>> THEN <<>>
    ELSE IF Len(pairs) = 1 THEN Head(pairs)
    ELSE Head(pairs) \o << "&" >> \o JoinAmp(Tail(pairs))

\* Values.Encode: "k=v" pairs, keys sorted, joined by "&", both escaped.
ValuesEncode(v) == JoinAmp(EncodePairs(v, SortedKeys(DOMAIN v)))

----------------------------------------------------------------------------
(* Errors *)

NilErr == [ kind |-> "nil", cause |-> "" ]

TransportError(cause) == [ kind |-> "transport", cause |-> cause ]

\* The package's sentinel error of CapturePaymentIntent.
ErrCapturePaymentIntentFailed ==
    [ kind |-> "ErrCapturePaymentIntentFailed", cause |-> "" ]

DecodeError == [ kind |-> "json", cause |-> "decode" ]

----------------------------------------------------------------------------
(* JSON values and encoding/json's Decode into the response structs *)

JString(s) == [ t |-> "string", s |-> s ]
JNumber(n) == [ t |-> "number", n |-> n ]
JBool(b) == [ t |-> "bool", b |-> b ]
JArray(a) == [ t |-> "array", a |-> a ]
JObject(f) == [ t |-> "object", o |-> f ]
JNull == [ t |-> "null" ]
JMalformed == [ t |-> "malformed" ]

Has(obj, key) == key \in DOMAIN obj

\* A JSON key decoded into a Go string field: a string is stored, null and
\* an absent key leave the zero value, any other type leaves the zero value
\* and is a type error.
StringField(obj, key) ==
    IF Has(obj, key) /\ obj[key].t = "string" THEN obj[key].s ELSE ""

BoolField(obj, key) ==
    IF Has(obj, key) /\ obj[key].t = "bool" THEN obj[key].b ELSE FALSE

FieldMismatch(obj, key, type) ==
    Has(obj, key) /\ obj[key].t \notin { type, "null" }

ReaderStringKeys ==
    { "id", "object", "device_software_version", "device_type", "ip_address",
      "label", "location", "serial_number", "status" }

ZeroReader ==
    [ ID |-> "", Object |-> "", DeviceSwVersion |-> "", DeviceType |-> "",
      IPAddress |-> "", Label |-> "", Livemode |-> FALSE, Location |-> "",
      SerialNumber |-> "", Status |-> "", Metadata |-> "Metadata{}" ]

\* type Reader struct, with its json tags.
DecodeReader(j) ==
    IF j.t # "object" THEN ZeroReader
    ELSE [ ID              |-> StringField(j.o, "id"),
           Object          |-> StringField(j.o, "object"),
           DeviceSwVersion |-> StringField(j.o, "device_software_version"),
           DeviceType      |-> StringField(j.o, "device_type"),
           IPAddress       |-> StringField(j.o, "ip_address"),
           Label           |-> StringField(j.o, "label"),
           Livemode        |-> BoolField(j.o, "livemode"),
           Location        |-> StringField(j.o, "location"),
           SerialNumber    |-> StringField(j.o, "serial_number"),
           Status          |-> StringField(j.o, "status"),
           Metadata        |-> "Metadata{}" ]

ReaderMismatch(j) ==
    IF j.t = "null" THEN FALSE
    ELSE IF j.t # "object" THEN TRUE
    ELSE \/ \E k \in ReaderStringKeys : FieldMismatch(j.o, k, "string")
         \/ FieldMismatch(j.o, "livemode", "bool")
         \/ FieldMismatch(j.o, "metadata", "object")

\* The Data []Reader field: one Reader per array element, in array order.
DecodeReaders(obj) ==
    IF Has(obj, "data") /\ obj["data"].t = "array"
    THEN [ i \in 1..Len(obj["data"].a) |-> DecodeReader(obj["data"].a[i]) ]
    ELSE <<>>

ReadersMismatch(obj) ==
    \/ FieldMismatch(obj, "data", "array")
    \/ /\ Has(obj, "data")
       /\ obj["data"].t = "array"
       /\ \E i \in 1..Len(obj["data"].a) : ReaderMismatch(obj["data"].a[i])

ZeroReadersResponse ==
    [ Error |-> "", Object |-> "", URL |-> "", HasMore |-> FALSE, Data |-> <<>> ]

\* json.NewDecoder(body).Decode(&result) for each response struct: the
\* struct as left by the decoder and the error Decode returns.
DecodeReadersResponse(body) ==
    IF body.t # "object"
    THEN [ val |-> ZeroReadersResponse, err |-> DecodeError ]
    ELSE [ val |-> [ Error   |-> StringField(body.o, "error"),
                     Object  |-> StringField(body.o, "object"),
                     URL     |-> StringField(body.o, "url"),
                     HasMore |-> BoolField(body.o, "has_more"),
                     Data    |-> DecodeReaders(body.o) ],
           err |-> IF \/ \E k \in { "error", "object", "url" } :
                            FieldMismatch(body.o, k, "string")
                      \/ FieldMismatch(body.o, "has_more", "bool")
                      \/ ReadersMismatch(body.o)
                   THEN DecodeError ELSE NilErr ]

\* The four one-field response structs, by the json tag of their field.
DecodeOneField(body, key) ==
    IF body.t # "object"
    THEN [ val |-> "", err |-> DecodeError ]
    ELSE [ val |-> StringField(body.o, key),
           err |-> IF FieldMismatch(body.o, key, "string")
                   THEN DecodeError ELSE NilErr ]

DecodeCreatePaymentIntentResponse(body) == DecodeOneField(body, "id")

DecodeStartNewRPCSessionResponse(body) ==
    DecodeOneField(body, "sdk_rpc_session_token")

DecodeGetConnectionTokenResponse(body) == DecodeOneField(body, "secret")

DecodeRegisterReaderResponse(body) == DecodeOneField(body, "ip_address")

----------------------------------------------------------------------------
(* The form keys and fixed form values of the requests, as text *)

\* "pos_device_info[device_class]"
KeyDeviceClass ==
    << "p", "o", "s", "_", "d", "e", "v", "i", "c", "e", "_", "i", "n",
    "f", "o", "[", "d", "e", "v", "i", "c", "e", "_", "c", "l", "a", "s",
    "s", "]" >>

\* "pos_device_info[device_uuid]"
KeyDeviceUUID ==
    << "p", "o", "s", "_", "d", "e", "v", "i", "c", "e", "_", "i", "n",
    "f", "o", "[", "d", "e", "v", "i", "c", "e", "_", "u", "u", "i", "d",
    "]" >>

\* "pos_device_info[host_os_version]"
KeyHostOSVersion ==
    << "p", "o", "s", "_", "d", "e", "v", "i", "c", "e", "_", "i", "n",
    "f", "o", "[", "h", "o", "s", "t", "_", "o", "s", "_", "v", "e", "r",
    "s", "i", "o", "n", "]" >>

\* "pos_device_info[hardware_model][pos_info][description]"
KeyPOSInfoDescription ==
    << "p", "o", "s", "_", "d", "e", "v", "i", "c", "e", "_", "i", "n",
    "f", "o", "[", "h", "a", "r", "d", "w", "a", "r", "e", "_", "m", "o",
    "d", "e", "l", "]", "[", "p", "o", "s", "_", "i", "n", "f", "o", "]",
    "[", "d", "e", "s", "c", "r", "i", "p", "t", "i", "o", "n", "]" >>

\* "pos_device_info[app_model][app_id]"
KeyAppID ==
    << "p", "o", "s", "_", "d", "e", "v", "i", "c", "e", "_", "i", "n",
    "f", "o", "[", "a", "p", "p", "_", "m", "o", "d", "e", "l", "]", "[",
    "a", "p", "p", "_", "i", "d", "]" >>

\* "pos_device_info[app_model][app_version]"
KeyAppVersion ==
    << "p", "o", "s", "_", "d", "e", "v", "i", "c", "e", "_", "i", "n",
    "f", "o", "[", "a", "p", "p", "_", "m", "o", "d", "e", "l", "]", "[",
    "a", "p", "p", "_", "v", "e", "r", "s", "i", "o", "n", "]" >>

\* "amount"
KeyAmount ==
    << "a", "m", "o", "u", "n", "t" >>

\* "currency"
KeyCurrency ==
    << "c", "u", "r", "r", "e", "n", "c", "y" >>

\* "payment_method_types[]"
KeyPaymentMethodTypes ==
    << "p", "a", "y", "m", "e", "n", "t", "_", "m", "e", "t", "h", "o",
    "d", "_", "t", "y", "p", "e", "s", "[", "]" >>

\* "capture_method"
KeyCaptureMethod ==
    << "c", "a", "p", "t", "u", "r", "e", "_", "m", "e", "t", "h", "o",
    "d" >>

\* "description"
KeyDescription ==
    << "d", "e", "s", "c", "r", "i", "p", "t", "i", "o", "n" >>

\* "registration_code"
KeyRegistrationCode ==
    << "r", "e", "g", "i", "s", "t", "r", "a", "t", "i", "o", "n", "_",
    "c", "o", "d", "e" >>

\* "card_present"
CardPresent ==
    << "c", "a", "r", "d", "_", "p", "r", "e", "s", "e", "n", "t" >>

\* "manual"
Manual ==
    << "m", "a", "n", "u", "a", "l" >>

\* "Stripe CLI Test Payment"
TestPaymentDescription ==
    << "S", "t", "r", "i", "p", "e", " ", "C", "L", "I", " ", "T", "e",
    "s", "t", " ", "P", "a", "y", "m", "e", "n", "t" >>

----------------------------------------------------------------------------
(* Collaborators outside this file: base URL, paths, the stripe client *)

DefaultAPIBaseURL == "https://api.stripe.com"

stripeTerminalReadersPath == << "/v1/terminal/readers" >>
stripeTerminalRegisterPath == << "/v1/terminal/readers" >>
stripeTerminalConnectionTokensPath == << "/v1/terminal/connection_tokens" >>
stripeCreatePaymentIntentPath == << "/v1/payment_intents" >>
stripeCapturePaymentIntentPath == << "/v1/payment_intents/", "%s", "/capture" >>
rpcSessionPath == << "/v1/terminal/connection_tokens/generate_pos_rpc_session" >>

\* url.Parse: the parsed URL and the error; a raw URL without a scheme
\* before its colon is the error case.
UrlParse(raw) ==
    IF raw = ":" THEN [ url |-> "", err |-> [ kind |-> "url", cause |-> "parse" ] ]
    ELSE [ url |-> raw, err |-> NilErr ]

\* fmt.Sprintf over a format given as its pieces: each "%s" verb is replaced
\* by the next argument, every other piece is copied.
RECURSIVE Sprintf(_, _)
Sprintf(format, args) ==
    IF format = <<>> THEN <<>>
    ELSE IF Head(format) = "%s"
         THEN (IF args = <<>> THEN << "%!s(MISSING)" >> ELSE Head(args))
              \o Sprintf(Tail(format), IF args = <<>> THEN <<>> ELSE Tail(args))
         ELSE << Head(format) >> \o Sprintf(Tail(format), args)

\* &stripe.Client{BaseURL, APIKey, Verbose: false}
StripeClient(baseURL, apiKey) ==
    [ BaseURL |-> baseURL, APIKey |-> apiKey, Verbose |-> FALSE ]

\* client.PerformRequest(ctx, method, path, params, nil): the request the
\* stripe client puts on the wire, authenticated with the client's APIKey.
PerformRequest(client, method, path, params) ==
    [ Method        |-> method,
      URL           |-> << client.BaseURL >> \o path,
      Body          |-> params,
      ContentType   |-> "application/x-www-form-urlencoded",
      Authorization |-> << "Bearer", client.APIKey >> ]

StatusOK == 200

----------------------------------------------------------------------------
(* What one call of an operation did *)

\* The operation returned (result, err) after issuing `requests`, reading
\* the response's status `reads` times, decoding its body `decodes` times
\* and closing it `closes` times.
Returned(result, err, requests, reads, decodes, closes) ==
    [ panicked |-> FALSE, result |-> result, err |-> err,
      requests |-> requests, statusReads |-> reads, decodes |-> decodes,
      closes |-> closes ]

\* The operation dereferenced a nil *http.Response: a run-time panic, no
\* return value.
Panicked(requests) ==
    [ panicked |-> TRUE, result |-> "", err |-> NilErr,
      requests |-> requests, statusReads |-> 1, decodes |-> 0, closes |-> 0 ]

----------------------------------------------------------------------------
(* The six operations.  tsCtx is the TerminalSessionContext passed by      *)
(* value; reply is what the transport hands back for the request: the      *)
(* pair (res, err) of PerformRequest or http.Client.Do.                    *)

\* Faulty variant: a page with has_more set is followed by a second request.
DiscoverReaders_FollowsPages(tsCtx, reply) ==
    LET parsed == UrlParse(DefaultAPIBaseURL)
        readersList == <<>>
        client == StripeClient(parsed.url, tsCtx.APIKey)
        request == PerformRequest(client, "GET", stripeTerminalReadersPath, <<>>)
        result == DecodeReadersResponse(reply.res.Body).val
    IN  IF parsed.err # NilErr
        THEN Returned(<<>>, parsed.err, <<>>, 0, 0, 0)
        ELSE IF reply.err # NilErr
        THEN Returned(readersList, reply.err, << request >>, 0, 0, 0)
        ELSE IF reply.res.nil
        THEN Panicked(<< request >>)
        ELSE IF reply.res.StatusCode # StatusOK
        THEN Returned(readersList, reply.err, << request >>, 1, 0, 0)
        ELSE IF result.HasMore
        THEN Returned(result.Data \o result.Data, NilErr, << request, request >>, 2, 2, 2)
        ELSE Returned(result.Data, NilErr, << request >>, 1, 1, 1)

\* Faulty variant: the readers are returned in reverse order.
DiscoverReaders_NewestFirst(tsCtx, reply) ==
    LET parsed == UrlParse(DefaultAPIBaseURL)
        readersList == <<>>
        client == StripeClient(parsed.url, tsCtx.APIKey)
        request == PerformRequest(client, "GET", stripeTerminalReadersPath, <<>>)
        result == DecodeReadersResponse(reply.res.Body).val
    IN  IF parsed.err # NilErr
        THEN Returned(<<>>, parsed.err, <<>>, 0, 0, 0)
        ELSE IF reply.err # NilErr
        THEN Returned(readersList, reply.err, << request >>, 0, 0, 0)
        ELSE IF reply.res.nil
        THEN Panicked(<< request >>)
        ELSE IF reply.res.StatusCode # StatusOK
        THEN Returned(readersList, reply.err, << request >>, 1, 0, 0)
        ELSE Returned([ i \in 1..Len(result.Data) |->
                          result.Data[Len(result.Data) + 1 - i] ],
                      NilErr, << request >>, 1, 1, 1)

\* Faulty variant: the status is read before the transport error is looked at.
DiscoverReaders_StatusFirst(tsCtx, reply) ==
    LET parsed == UrlParse(DefaultAPIBaseURL)
        readersList == <<>>
        client == StripeClient(parsed.url, tsCtx.APIKey)
        request == PerformRequest(client, "GET", stripeTerminalReadersPath, <<>>)
        result == DecodeReadersResponse(reply.res.Body).val
    IN  IF parsed.err # NilErr
        THEN Returned(<<>>, parsed.err, <<>>, 0, 0, 0)
        ELSE IF reply.res.nil
        THEN Panicked(<< request >>)
        ELSE IF reply.res.StatusCode # StatusOK
        THEN Returned(readersList, reply.err, << request >>, 1, 0, 0)
        ELSE IF reply.err # NilErr
        THEN Returned(readersList, reply.err, << request >>, 1, 0, 0)
        ELSE Returned(result.Data, NilErr, << request >>, 1, 1, 1)

\* func DiscoverReaders(tsCtx TerminalSessionContext) ([]Reader, error)
DiscoverReaders(tsCtx, reply) ==
    LET parsed == UrlParse(DefaultAPIBaseURL)
        readersList == <<>>
        client == StripeClient(parsed.url, tsCtx.APIKey)
        request == PerformRequest(client, "GET", stripeTerminalReadersPath, <<>>)
        result == DecodeReadersResponse(reply.res.Body).val
    IN  IF parsed.err # NilErr
        THEN Returned(<<>>, parsed.err, <<>>, 0, 0, 0)
        ELSE IF reply.err # NilErr
        THEN Returned(readersList, reply.err, << request >>, 0, 0, 0)
        ELSE IF reply.res.nil
        THEN Panicked(<< request >>)
        ELSE IF reply.res.StatusCode # StatusOK
        THEN Returned(readersList, reply.err, << request >>, 1, 0, 0)
        ELSE Returned(result.Data, NilErr, << request >>, 1, 1, 1)

\* http.NewRequest(method, url, body): fails when the URL does not parse.
NewRequest(method, url, body) ==
    [ req |-> [ Method |-> method, URL |-> url, Body |-> body,
                ContentType |-> "", Authorization |-> <<>> ],
      err |-> UrlParse(Head(url)).err ]

\* request.Header.Set(name, value) for the two headers the code sets.
HeaderSet(request, name, value) ==
    IF name = "Content-Type" THEN [ request EXCEPT !.ContentType = value ]
    ELSE IF name = "Authorization" THEN [ request EXCEPT !.Authorization = value ]
    ELSE request

\* Faulty variant: the RPC session request is authenticated with the APIKey.
StartNewRPCSession_WithAPIKey(tsCtx, reply) ==
    LET parsed == UrlParse(DefaultAPIBaseURL)
        stripeTerminalRPCSessionURL ==
            Sprintf(<< "%s", "%s" >>, << << parsed.url >>, rpcSessionPath >>)
        d1 == ValuesSet(EmptyValues, KeyDeviceClass, tsCtx.DeviceInfo.DeviceClass)
        d2 == ValuesSet(d1, KeyDeviceUUID, tsCtx.DeviceInfo.DeviceUUID)
        d3 == ValuesSet(d2, KeyHostOSVersion, tsCtx.DeviceInfo.HostOSVersion)
        d4 == ValuesSet(d3, KeyPOSInfoDescription,
                        tsCtx.DeviceInfo.HardwareModel.POSInfo.Description)
        d5 == ValuesSet(d4, KeyAppID, tsCtx.DeviceInfo.AppModel.AppID)
        data == ValuesSet(d5, KeyAppVersion, tsCtx.DeviceInfo.AppModel.AppVersion)
        encodedURLData == ValuesEncode(data)
        made == NewRequest("POST", stripeTerminalRPCSessionURL, encodedURLData)
        r1 == HeaderSet(made.req, "Content-Type",
                        "application/x-www-form-urlencoded")
        request == HeaderSet(r1, "Authorization", << "Bearer", tsCtx.APIKey >>)
        result == DecodeStartNewRPCSessionResponse(reply.res.Body).val
    IN  IF parsed.err # NilErr
        THEN Returned("", parsed.err, <<>>, 0, 0, 0)
        ELSE IF made.err # NilErr
        THEN Returned("", made.err, <<>>, 0, 0, 0)
        ELSE IF reply.err # NilErr
        THEN Returned("", reply.err, << request >>, 0, 0, 0)
        ELSE IF reply.res.nil
        THEN Panicked(<< request >>)
        ELSE IF reply.res.StatusCode # StatusOK
        THEN Returned("", reply.err, << request >>, 1, 0, 0)
        ELSE Returned(result, NilErr, << request >>, 1, 1, 1)

\* func StartNewRPCSession(tsCtx TerminalSessionContext) (string, error)
StartNewRPCSession(tsCtx, reply) ==
    LET parsed == UrlParse(DefaultAPIBaseURL)
        stripeTerminalRPCSessionURL ==
            Sprintf(<< "%s", "%s" >>, << << parsed.url >>, rpcSessionPath >>)
        d1 == ValuesSet(EmptyValues, KeyDeviceClass, tsCtx.DeviceInfo.DeviceClass)
        d2 == ValuesSet(d1, KeyDeviceUUID, tsCtx.DeviceInfo.DeviceUUID)
        d3 == ValuesSet(d2, KeyHostOSVersion, tsCtx.DeviceInfo.HostOSVersion)
        d4 == ValuesSet(d3, KeyPOSInfoDescription,
                        tsCtx.DeviceInfo.HardwareModel.POSInfo.Description)
        d5 == ValuesSet(d4, KeyAppID, tsCtx.DeviceInfo.AppModel.AppID)
        data == ValuesSet(d5, KeyAppVersion, tsCtx.DeviceInfo.AppModel.AppVersion)
        encodedURLData == ValuesEncode(data)
        made == NewRequest("POST", stripeTerminalRPCSessionURL, encodedURLData)
        r1 == HeaderSet(made.req, "Content-Type",
                        "application/x-www-form-urlencoded")
        request == HeaderSet(r1, "Authorization", << "Bearer", tsCtx.PstToken >>)
        result == DecodeStartNewRPCSessionResponse(reply.res.Body).val
    IN  IF parsed.err # NilErr
        THEN Returned("", parsed.err, <<>>, 0, 0, 0)
        ELSE IF made.err # NilErr
        THEN Returned("", made.err, <<>>, 0, 0, 0)
        ELSE IF reply.err # NilErr
        THEN Returned("", reply.err, << request >>, 0, 0, 0)
        ELSE IF reply.res.nil
        THEN Panicked(<< request >>)
        ELSE IF reply.res.StatusCode # StatusOK
        THEN Returned("", reply.err, << request >>, 1, 0, 0)
        ELSE Returned(result, NilErr, << request >>, 1, 1, 1)

\* func GetNewConnectionToken(tsCtx TerminalSessionContext) (string, error)
GetNewConnectionToken(tsCtx, reply) ==
    LET parsed == UrlParse(DefaultAPIBaseURL)
        client == StripeClient(parsed.url, tsCtx.APIKey)
        request == PerformRequest(client, "POST",
                                  stripeTerminalConnectionTokensPath, <<>>)
        result == DecodeGetConnectionTokenResponse(reply.res.Body).val
    IN  IF parsed.err # NilErr
        THEN Returned("", parsed.err, <<>>, 0, 0, 0)
        ELSE IF reply.err # NilErr
        THEN Returned("", reply.err, << request >>, 0, 0, 0)
        ELSE IF reply.res.nil
        THEN Panicked(<< request >>)
        ELSE IF reply.res.StatusCode # StatusOK
        THEN Returned("", reply.err, << request >>, 1, 0, 0)
        ELSE Returned(result, NilErr, << request >>, 1, 1, 1)

\* Faulty variant: the payment intent is created with automatic capture.
CreatePaymentIntent_AutomaticCapture(tsCtx, reply) ==
    LET parsed == UrlParse(DefaultAPIBaseURL)
        amountStr == Itoa(tsCtx.Amount)
        client == StripeClient(parsed.url, tsCtx.APIKey)
        d1 == ValuesSet(EmptyValues, KeyAmount, amountStr)
        d2 == ValuesSet(d1, KeyCurrency, tsCtx.Currency)
        d3 == ValuesSet(d2, KeyPaymentMethodTypes, CardPresent)
        d4 == ValuesSet(d3, KeyCaptureMethod, << "a", "u", "t", "o", "m", "a", "t", "i", "c" >>)
        data == ValuesSet(d4, KeyDescription, TestPaymentDescription)
        request == PerformRequest(client, "POST", stripeCreatePaymentIntentPath,
                                  ValuesEncode(data))
        result == DecodeCreatePaymentIntentResponse(reply.res.Body).val
    IN  IF parsed.err # NilErr
        THEN Returned("", parsed.err, <<>>, 0, 0, 0)
        ELSE IF reply.err # NilErr
        THEN Returned("", reply.err, << request >>, 0, 0, 0)
        ELSE IF reply.res.nil
        THEN Panicked(<< request >>)
        ELSE IF reply.res.StatusCode # StatusOK
        THEN Returned("", reply.err, << request >>, 1, 0, 0)
        ELSE Returned(result, NilErr, << request >>, 1, 1, 1)

\* Faulty variant: the error of Decode is returned to the caller.
CreatePaymentIntent_ReturnsDecodeError(tsCtx, reply) ==
    LET parsed == UrlParse(DefaultAPIBaseURL)
        amountStr == Itoa(tsCtx.Amount)
        client == StripeClient(parsed.url, tsCtx.APIKey)
        d1 == ValuesSet(EmptyValues, KeyAmount, amountStr)
        d2 == ValuesSet(d1, KeyCurrency, tsCtx.Currency)
        d3 == ValuesSet(d2, KeyPaymentMethodTypes, CardPresent)
        d4 == ValuesSet(d3, KeyCaptureMethod, Manual)
        data == ValuesSet(d4, KeyDescription, TestPaymentDescription)
        request == PerformRequest(client, "POST", stripeCreatePaymentIntentPath,
                                  ValuesEncode(data))
        decoded == DecodeCreatePaymentIntentResponse(reply.res.Body)
        result == decoded.val
    IN  IF parsed.err # NilErr
        THEN Returned("", parsed.err, <<>>, 0, 0, 0)
        ELSE IF reply.err # NilErr
        THEN Returned("", reply.err, << request >>, 0, 0, 0)
        ELSE IF reply.res.nil
        THEN Panicked(<< request >>)
        ELSE IF reply.res.StatusCode # StatusOK
        THEN Returned("", reply.err, << request >>, 1, 0, 0)
        ELSE Returned(result, decoded.err, << request >>, 1, 1, 1)

\* func CreatePaymentIntent(tsCtx TerminalSessionContext) (string, error)
CreatePaymentIntent(tsCtx, reply) ==
    LET parsed == UrlParse(DefaultAPIBaseURL)
        amountStr == Itoa(tsCtx.Amount)
        client == StripeClient(parsed.url, tsCtx.APIKey)
        d1 == ValuesSet(EmptyValues, KeyAmount, amountStr)
        d2 == ValuesSet(d1, KeyCurrency, tsCtx.Currency)
        d3 == ValuesSet(d2, KeyPaymentMethodTypes, CardPresent)
        d4 == ValuesSet(d3, KeyCaptureMethod, Manual)
        data == ValuesSet(d4, KeyDescription, TestPaymentDescription)
        request == PerformRequest(client, "POST", stripeCreatePaymentIntentPath,
                                  ValuesEncode(data))
        result == DecodeCreatePaymentIntentResponse(reply.res.Body).val
    IN  IF parsed.err # NilErr
        THEN Returned("", parsed.err, <<>>, 0, 0, 0)
        ELSE IF reply.err # NilErr
        THEN Returned("", reply.err, << request >>, 0, 0, 0)
        ELSE IF reply.res.nil
        THEN Panicked(<< request >>)
        ELSE IF reply.res.StatusCode # StatusOK
        THEN Returned("", reply.err, << request >>, 1, 0, 0)
        ELSE Returned(result, NilErr, << request >>, 1, 1, 1)

\* Faulty variant: on a non-200 status the underlying error is returned instead of
\* the sentinel.
CapturePaymentIntent_SurfacesCause(tsCtx, reply) ==
    LET parsed == UrlParse(DefaultAPIBaseURL)
        stripeCapturePaymentIntentURL ==
            Sprintf(stripeCapturePaymentIntentPath, << << tsCtx.PaymentIntentID >> >>)
        client == StripeClient(parsed.url, tsCtx.APIKey)
        request == PerformRequest(client, "POST",
                                  stripeCapturePaymentIntentURL, <<>>)
    IN  IF parsed.err # NilErr
        THEN Returned("", parsed.err, <<>>, 0, 0, 0)
        ELSE IF reply.err # NilErr
        THEN Returned("", ErrCapturePaymentIntentFailed, << request >>, 0, 0, 0)
        ELSE IF reply.res.nil
        THEN Panicked(<< request >>)
        ELSE IF reply.res.StatusCode # StatusOK
        THEN Returned("", reply.err, << request >>, 1, 0, 0)
        ELSE Returned("", NilErr, << request >>, 1, 0, 1)

\* Faulty variant: the capture path is formatted without the payment intent id.
CapturePaymentIntent_NoID(tsCtx, reply) ==
    LET parsed == UrlParse(DefaultAPIBaseURL)
        stripeCapturePaymentIntentURL ==
            Sprintf(stripeCapturePaymentIntentPath, <<>>)
        client == StripeClient(parsed.url, tsCtx.APIKey)
        request == PerformRequest(client, "POST",
                                  stripeCapturePaymentIntentURL, <<>>)
    IN  IF parsed.err # NilErr
        THEN Returned("", parsed.err, <<>>, 0, 0, 0)
        ELSE IF reply.err # NilErr
        THEN Returned("", ErrCapturePaymentIntentFailed, << request >>, 0, 0, 0)
        ELSE IF reply.res.nil
        THEN Panicked(<< request >>)
        ELSE IF reply.res.StatusCode # StatusOK
        THEN Returned("", ErrCapturePaymentIntentFailed, << request >>, 1, 0, 0)
        ELSE Returned("", NilErr, << request >>, 1, 0, 1)

\* func CapturePaymentIntent(tsCtx TerminalSessionContext) error
\* (no result value: the result field is the empty string)
CapturePaymentIntent(tsCtx, reply) ==
    LET parsed == UrlParse(DefaultAPIBaseURL)
        stripeCapturePaymentIntentURL ==
            Sprintf(stripeCapturePaymentIntentPath, << << tsCtx.PaymentIntentID >> >>)
        client == StripeClient(parsed.url, tsCtx.APIKey)
        request == PerformRequest(client, "POST",
                                  stripeCapturePaymentIntentURL, <<>>)
    IN  IF parsed.err # NilErr
        THEN Returned("", parsed.err, <<>>, 0, 0, 0)
        ELSE IF reply.err # NilErr
        THEN Returned("", ErrCapturePaymentIntentFailed, << request >>, 0, 0, 0)
        ELSE IF reply.res.nil
        THEN Panicked(<< request >>)
        ELSE IF reply.res.StatusCode # StatusOK
        THEN Returned("", ErrCapturePaymentIntentFailed, << request >>, 1, 0, 0)
        ELSE Returned("", NilErr, << request >>, 1, 0, 1)

\* func RegisterReader(regcode string, tsCtx TerminalSessionContext) (string, error)
RegisterReader(regcode, tsCtx, reply) ==
    LET parsed == UrlParse(DefaultAPIBaseURL)
        client == StripeClient(parsed.url, tsCtx.APIKey)
        data == ValuesSet(EmptyValues, KeyRegistrationCode, regcode)
        request == PerformRequest(client, "POST", stripeTerminalRegisterPath,
                                  ValuesEncode(data))
        result == DecodeRegisterReaderResponse(reply.res.Body).val
    IN  IF parsed.err # NilErr
        THEN Returned("", parsed.err, <<>>, 0, 0, 0)
        ELSE IF reply.err # NilErr
        THEN Returned("", reply.err, << request >>, 0, 0, 0)
        ELSE IF reply.res.nil
        THEN Panicked(<< request >>)
        ELSE IF reply.res.StatusCode # StatusOK
        THEN Returned("", reply.err, << request >>, 1, 0, 0)
        ELSE Returned(result, NilErr, << request >>, 1, 1, 1)

----------------------------------------------------------------------------
(* The environment: session contexts and what the platform answers *)

APIKeys == { "sk_test_1", "sk_test_2" }

PstTokens == { "pst_test_1", "pst_test_2" }

Amounts == { -50, 0, 1999 }

Currencies == { << "u", "s", "d" >>, << "e", "u", "r" >> }

RegCodes == { << "s", "i", "m", "-", "a", "b" >>, << "a", " ", "b", "&", "c" >> }

TheDeviceInfo ==
    [ DeviceClass   |-> << "P", "O", "S" >>,
      DeviceUUID    |-> << "u", "-", "1" >>,
      HostOSVersion |-> << "1", "0", ".", "1", "5" >>,
      HardwareModel |-> [ POSInfo |-> [ Description |-> << "m", "a", "c", " ", "1" >> ] ],
      AppModel      |-> [ AppID |-> << "c", "l", "i" >>,
                          AppVersion |-> << "1", ".", "4" >> ] ]

Contexts ==
    [ APIKey : APIKeys, DeviceInfo : { TheDeviceInfo }, PstToken : PstTokens,
      Amount : Amounts, Currency : Currencies, PaymentIntentID : { "pi_000" } ]

ReaderObject(id, ip) ==
    JObject([ id |-> JString(id), object |-> JString("terminal.reader"),
              ip_address |-> JString(ip), livemode |-> JBool(FALSE) ])

\* Two readers, and a third object that repeats the first one's id.
ReaderObjects ==
    { ReaderObject("tmr_1", "10.0.0.1"), ReaderObject("tmr_2", "10.0.0.2"),
      ReaderObject("tmr_1", "10.0.0.3") }

ReaderArrays == UNION { [ 1..n -> ReaderObjects ] : n \in 0..MaxReaders }

ReadersBodies ==
    { JObject([ object |-> JString("list"), url |-> JString("/v1/terminal/readers"),
                has_more |-> JBool(h), data |-> JArray(a) ]) :
        h \in BOOLEAN, a \in ReaderArrays }

FieldBodies ==
    { JObject([ id |-> JString("pi_123") ]),
      JObject([ id |-> JString("pi_456"), amount |-> JNumber(1999) ]),
      JObject([ id |-> JNumber(5) ]),
      JObject([ secret |-> JString("pst_test_9") ]),
      JObject([ sdk_rpc_session_token |-> JString("rpc_1") ]),
      JObject([ ip_address |-> JString("192.168.0.7") ]),
      JObject([ data |-> JString("none") ]),
      JObject([ data |-> JArray(<< JNumber(1) >>) ]),
      JObject([ foo |-> JString("bar") ]) }

BrokenBodies == { JMalformed, JArray(<<>>) }

OKBodies == ReadersBodies \cup FieldBodies \cup BrokenBodies

ErrorBodies ==
    { JObject([ error |-> JObject([ message |-> JString("declined") ]) ]),
      JObject([ id |-> JString("pi_123") ]),
      JObject([ has_more |-> JBool(TRUE),
                data |-> JArray(<< ReaderObject("tmr_1", "10.0.0.1") >>) ]),
      JMalformed }

ErrorStatuses == { 402, 404 }

NoResponse == [ nil |-> TRUE, StatusCode |-> 0, Body |-> JNull ]

Response(status, body) == [ nil |-> FALSE, StatusCode |-> status, Body |-> body ]

TransportFailures ==
    { [ err |-> TransportError(c), res |-> NoResponse ] :
        c \in { "connection refused", "deadline exceeded" } }

Responses ==
    { [ err |-> NilErr, res |-> Response(StatusOK, b) ] : b \in OKBodies }
    \cup { [ err |-> NilErr, res |-> Response(st, b) ] :
             st \in ErrorStatuses, b \in ErrorBodies }

Replies == TransportFailures \cup Responses

----------------------------------------------------------------------------------------------------------------------------------------
(* State machine: the caller invokes operations one after another; each    *)
(* call blocks until the transport has handed back its reply.              *)

Operations ==
    { "DiscoverReaders", "StartNewRPCSession", "GetNewConnectionToken",
      "CreatePaymentIntent", "CapturePaymentIntent", "RegisterReader" }

Idle == [ op |-> "none", regcode |-> <<>> ]

NoOutcome == Returned("", NilErr, <<>>, 0, 0, 0)

NoCall(c) ==
    [ op |-> "none", regcode |-> <<>>, ctx |-> c,
      reply |-> [ err |-> NilErr, res |-> NoResponse ], out |-> NoOutcome ]

Init ==
    /\ ctx \in Contexts
    /\ pending = Idle
    /\ last = NoCall(ctx)
    /\ threaded = [ set |-> FALSE, id |-> "" ]

\* The caller invokes an operation with the current context (RegisterReader
\* also with a registration code).
Invoke ==
    /\ pending = Idle
    /\ \E op \in Operations :
         \E regcode \in (IF op = "RegisterReader" THEN RegCodes ELSE { <<>> }) :
            pending' = [ op |-> op, regcode |-> regcode ]
    /\ last' = NoCall(ctx)
    /\ UNCHANGED << ctx, threaded >>

\* The pending call runs to its return: the context is passed by value and
\* is not changed.
Complete(reply, out) ==
    /\ last' = [ op |-> pending.op, regcode |-> pending.regcode, ctx |-> ctx,
                 reply |-> reply, out |-> out ]
    /\ pending' = Idle
    /\ UNCHANGED << ctx, threaded >>

CallDiscoverReaders ==
    /\ pending.op = "DiscoverReaders"
    /\ \E reply \in Replies : Complete(reply, DiscoverReaders(ctx, reply))

CallStartNewRPCSession ==
    /\ pending.op = "StartNewRPCSession"
    /\ \E reply \in Replies : Complete(reply, StartNewRPCSession(ctx, reply))

CallGetNewConnectionToken ==
    /\ pending.op = "GetNewConnectionToken"
    /\ \E reply \in Replies : Complete(reply, GetNewConnectionToken(ctx, reply))

CallCreatePaymentIntent ==
    /\ pending.op = "CreatePaymentIntent"
    /\ \E reply \in Replies : Complete(reply, CreatePaymentIntent(ctx, reply))

CallCapturePaymentIntent ==
    /\ pending.op = "CapturePaymentIntent"
    /\ \E reply \in Replies : Complete(reply, CapturePaymentIntent(ctx, reply))

CallRegisterReader ==
    /\ pending.op = "RegisterReader"
    /\ \E reply \in Replies :
         Complete(reply, RegisterReader(pending.regcode, ctx, reply))

\* The id in a create response, "" when the body has none.
PlatformID(reply) ==
    IF reply.res.Body.t = "object" THEN StringField(reply.res.Body.o, "id") ELSE ""

\* The caller copies the id CreatePaymentIntent returned into the context it
\* passes to the next call.
SetPaymentIntentID ==
    /\ pending = Idle
    /\ last.op = "CreatePaymentIntent"
    /\ ~last.out.panicked
    /\ last.out.err = NilErr
    /\ ~last.reply.res.nil
    /\ last.reply.res.StatusCode = StatusOK
    /\ ~threaded.set \/ ctx.PaymentIntentID # last.out.result
    /\ ctx' = [ ctx EXCEPT !.PaymentIntentID = last.out.result ]
    /\ threaded' = [ set |-> TRUE, id |-> PlatformID(last.reply) ]
    /\ UNCHANGED << pending, last >>

Next ==
    \/ Invoke
    \/ CallDiscoverReaders
    \/ CallStartNewRPCSession
    \/ CallGetNewConnectionToken
    \/ CallCreatePaymentIntent
    \/ CallCapturePaymentIntent
    \/ CallRegisterReader
    \/ SetPaymentIntentID

Spec == Init /\ [][Next]_vars

----------------------------------------------------------------------------
(* What the platform reads from a request: the form fields of its body     *)
(* (the inverse of Values.Encode) and the integer a decimal text denotes.  *)

Unhex(h) ==
    CASE h = << "2", "5" >> -> "%"
      [] h = << "2", "6" >> -> "&"
      [] h = << "2", "B" >> -> "+"
      [] h = << "2", "F" >> -> "/"
      [] h = << "3", "D" >> -> "="
      [] h = << "5", "B" >> -> "["
      [] h = << "5", "D" >> -> "]"
      [] OTHER -> "?"

RECURSIVE QueryUnescape(_)
QueryUnescape(s) ==
    IF s = <<>> THEN <<>>
    ELSE IF Head(s) = "+" THEN << " " >> \o QueryUnescape(Tail(s))
    ELSE IF Head(s) = "%" /\ Len(s) >= 3
         THEN << Unhex(SubSeq(s, 2, 3)) >> \o QueryUnescape(SubSeq(s, 4, Len(s)))
    ELSE << Head(s) >> \o QueryUnescape(Tail(s))

\* Index of the first occurrence of character c in s at or after position
\* i, 0 when there is none.
RECURSIVE IndexFrom(_, _, _)
IndexFrom(s, c, i) ==
    IF i > Len(s) THEN 0
    ELSE IF s[i] = c THEN i
    ELSE IndexFrom(s, c, i + 1)

IndexOf(s, c) == IndexFrom(s, c, 1)

RECURSIVE Split(_, _)
Split(s, c) ==
    LET k == IndexOf(s, c)
    IN  IF k = 0 THEN << s >>
        ELSE << SubSeq(s, 1, k - 1) >> \o Split(SubSeq(s, k + 1, Len(s)), c)

ParsePair(p) ==
    LET k == IndexOf(p, "=")
    IN  IF k = 0 THEN << QueryUnescape(p), <<>> >>
        ELSE << QueryUnescape(SubSeq(p, 1, k - 1)),
                QueryUnescape(SubSeq(p, k + 1, Len(p))) >>

\* The (key, value) pairs of a form-encoded body, in body order.
ParseQuery(body) ==
    LET parts == Split(body, "&")
    IN  IF body = <<>> THEN <<>>
        ELSE [ i \in 1..Len(parts) |-> ParsePair(parts[i]) ]

\* The values a form holds for a key, in body order.
FormValues(form, key) ==
    LET idx == { i \in 1..Len(form) : form[i][1] = key }
        F[n \in 0..Len(form)] ==
            IF n = 0 THEN <<>>
            ELSE IF n \in idx THEN F[n - 1] \o << form[n][2] >> ELSE F[n - 1]
    IN  F[Len(form)]

FormKeys(form) == { form[i][1] : i \in 1..Len(form) }

DigitValue(c) == (CHOOSE i \in 1..Len(Digits) : Digits[i] = c) - 1

IsDecimal(s) ==
    LET d == IF s # <<>> /\ Head(s) = "-" THEN Tail(s) ELSE s
    IN  /\ d # <<>>
        /\ \A i \in 1..Len(d) : d[i] \in DigitSet
        /\ Len(d) > 1 => d[1] # "0"
        /\ (s # d) => d # << "0" >>

RECURSIVE UintValue(_)
UintValue(d) ==
    IF d = <<>> THEN 0
    ELSE 10 * UintValue(SubSeq(d, 1, Len(d) - 1)) + DigitValue(d[Len(d)])

DecimalValue(s) ==
    IF Head(s) = "-" THEN 0 - UintValue(Tail(s)) ELSE UintValue(s)

----------------------------------------------------------------------------
(* Properties *)

Called == pending = Idle /\ last.op \in Operations

ValueOperations == Operations \ { "CapturePaymentIntent" }

GotResponse == ~last.reply.res.nil

Status == last.reply.res.StatusCode

\* The zero value of the operation's result: no readers, or the empty string.
EmptyResult == IF last.op = "DiscoverReaders" THEN <<>> ELSE ""

\* C1: for each of the six operations, a response whose status is not 200
\* (the transport itself having reported no error) makes the operation
\* return a non-nil error together with an empty result.
C1_NonOKStatusIsAnError ==
    (Called /\ GotResponse /\ Status # StatusOK)
        => /\ ~last.out.panicked
           /\ last.out.err # NilErr
           /\ last.out.result = EmptyResult

\* C2: whenever the transport hands back a response, whatever its status,
\* the operation closes the response body exactly once before it returns.
C2_BodyClosedExactlyOnce ==
    (Called /\ GotResponse) => last.out.closes = 1

\* C3: CapturePaymentIntent returns ErrCapturePaymentIntentFailed exactly
\* when the transport failed or the status was not 200, whatever the body,
\* and nil exactly when the transport succeeded with status 200.
C3_CaptureSentinel ==
    (Called /\ last.op = "CapturePaymentIntent")
        => LET failed == last.reply.err # NilErr \/ Status # StatusOK
           IN  /\ ~last.out.panicked
               /\ (last.out.err = ErrCapturePaymentIntentFailed) <=> failed
               /\ (last.out.err = NilErr) <=> ~failed

\* A capture answered 402 with a body that looks like a success.
C3_Witness ==
    /\ Called
    /\ last.op = "CapturePaymentIntent"
    /\ GotResponse
    /\ Status = 402
    /\ last.reply.res.Body = JObject([ id |-> JString("pi_123") ])
    /\ last.out.err = ErrCapturePaymentIntentFailed

\* C4: every request sent by StartNewRPCSession carries the context's
\* PstToken as its bearer credential and never the APIKey; every request sent
\* by the other five operations carries the APIKey and never the PstToken.
C4_AuthenticationBoundary ==
    Called =>
        \A i \in 1..Len(last.out.requests) :
            LET auth == last.out.requests[i].Authorization
            IN  IF last.op = "StartNewRPCSession"
                THEN /\ auth = << "Bearer", last.ctx.PstToken >>
                     /\ auth # << "Bearer", last.ctx.APIKey >>
                ELSE /\ auth = << "Bearer", last.ctx.APIKey >>
                     /\ auth # << "Bearer", last.ctx.PstToken >>

\* StartNewRPCSession has sent its request with the PstToken, and the
\* context's APIKey is a different credential.
C4_Witness ==
    /\ Called
    /\ last.op = "StartNewRPCSession"
    /\ Len(last.out.requests) = 1
    /\ last.out.requests[1].Authorization = << "Bearer", last.ctx.PstToken >>
    /\ last.ctx.PstToken # last.ctx.APIKey

\* C5: the request CreatePaymentIntent sends has capture_method = manual,
\* payment_method_types[] = card_present and nothing else, amount = the
\* decimal text of the context's Amount and currency = its Currency.
C5_ManualCardPresent ==
    (Called /\ last.op = "CreatePaymentIntent")
        => /\ Len(last.out.requests) = 1
           /\ LET form == ParseQuery(last.out.requests[1].Body)
              IN  /\ FormValues(form, KeyCaptureMethod) = << Manual >>
                  /\ FormValues(form, KeyPaymentMethodTypes) = << CardPresent >>
                  /\ FormValues(form, KeyCurrency) = << last.ctx.Currency >>
                  /\ Len(FormValues(form, KeyAmount)) = 1
                  /\ IsDecimal(FormValues(form, KeyAmount)[1])
                  /\ DecimalValue(FormValues(form, KeyAmount)[1]) = last.ctx.Amount

\* A payment intent of 1999 minor units was requested.
C5_Witness ==
    /\ Called
    /\ last.op = "CreatePaymentIntent"
    /\ last.ctx.Amount = 1999
    /\ Len(last.out.requests) = 1
    /\ KeyCaptureMethod \in FormKeys(ParseQuery(last.out.requests[1].Body))

\* C6: every call of an operation issues at most one remote request: none
\* follows a transport error or a non-200 status, and DiscoverReaders asks for
\* no further page when the response has has_more set.
C6_AtMostOneRequest ==
    Called => /\ Len(last.out.requests) <= 1
              /\ ~last.out.panicked

HasMore ==
    /\ last.reply.res.Body.t = "object"
    /\ BoolField(last.reply.res.Body.o, "has_more")

\* DiscoverReaders got a 200 page with has_more = true and sent one request.
C6_Witness ==
    /\ Called
    /\ last.op = "DiscoverReaders"
    /\ GotResponse
    /\ Status = StatusOK
    /\ HasMore
    /\ Len(last.out.requests) = 1

\* The data array of the response body, <<>> when the body has none.
DataArray ==
    IF /\ last.reply.res.Body.t = "object"
       /\ Has(last.reply.res.Body.o, "data")
       /\ last.reply.res.Body.o["data"].t = "array"
    THEN last.reply.res.Body.o["data"].a
    ELSE <<>>

ElementID(j) == IF j.t = "object" THEN StringField(j.o, "id") ELSE ""

ElementIP(j) == IF j.t = "object" THEN StringField(j.o, "ip_address") ELSE ""

\* The returned list is the data array, element for element and in order.
SameAsData ==
    /\ Len(last.out.result) = Len(DataArray)
    /\ \A i \in 1..Len(DataArray) :
          /\ last.out.result[i].ID = ElementID(DataArray[i])
          /\ last.out.result[i].IPAddress = ElementIP(DataArray[i])

DistinctDataIDs ==
    \A i, j \in 1..Len(DataArray) :
        i # j => ElementID(DataArray[i]) # ElementID(DataArray[j])

DistinctReturnedIDs ==
    \A i, j \in 1..Len(last.out.result) :
        i # j => last.out.result[i].ID # last.out.result[j].ID

DiscoveredOK ==
    Called /\ last.op = "DiscoverReaders" /\ GotResponse /\ Status = StatusOK

\* C7 as stated: on a 200 response DiscoverReaders returns the decoded data
\* array element for element, in order, and the returned IDs are pairwise
\* distinct.
C7_Original ==
    DiscoveredOK => (SameAsData /\ DistinctReturnedIDs)

\* C7 as amended: on a 200 response DiscoverReaders returns the decoded data
\* array element for element, in order; the returned IDs are pairwise
\* distinct when the ids of the data array are.
C7_OrderPreserved ==
    DiscoveredOK => /\ ~last.out.panicked
                    /\ last.out.err = NilErr
                    /\ SameAsData
                    /\ DistinctDataIDs => DistinctReturnedIDs

\* Two readers with different ids were returned, in the order of the array.
C7_Witness ==
    /\ DiscoveredOK
    /\ Len(DataArray) = 2
    /\ Len(last.out.result) = 2
    /\ last.out.result[1].ID = "tmr_2"
    /\ last.out.result[2].ID = "tmr_1"

\* The URL of the capture endpoint of payment intent id.
CaptureEndpoint(id) ==
    << DefaultAPIBaseURL, "/v1/payment_intents/", id, "/capture" >>

\* C8: in the workflow CreatePaymentIntent, caller sets PaymentIntentID,
\* CapturePaymentIntent: a create answered 200 with an id returns exactly
\* that id and no error; the capture request goes to the capture endpoint of
\* the context's PaymentIntentID, which is the id the platform gave; and a
\* capture answered 200 ends with no error.
C8_CreateThenCapture ==
    /\ (Called /\ last.op = "CreatePaymentIntent" /\ GotResponse
            /\ Status = StatusOK /\ PlatformID(last.reply) # "")
        => /\ ~last.out.panicked
           /\ last.out.err = NilErr
           /\ last.out.result = PlatformID(last.reply)
    /\ (threaded.set /\ threaded.id # "")
        => ctx.PaymentIntentID = threaded.id
    /\ (Called /\ last.op = "CapturePaymentIntent")
        => /\ Len(last.out.requests) = 1
           /\ last.out.requests[1].Method = "POST"
           /\ last.out.requests[1].Body = <<>>
           /\ last.out.requests[1].URL = CaptureEndpoint(last.ctx.PaymentIntentID)
           /\ (GotResponse /\ Status = StatusOK) => last.out.err = NilErr

\* The platform gave pi_123, the caller threaded it, and the capture of
\* pi_123 was answered 200.
C8_Witness ==
    /\ Called
    /\ last.op = "CapturePaymentIntent"
    /\ threaded.set
    /\ threaded.id = "pi_123"
    /\ last.ctx.PaymentIntentID = "pi_123"
    /\ GotResponse
    /\ Status = StatusOK
    /\ last.out.err = NilErr
    /\ last.out.requests[1].URL = CaptureEndpoint("pi_123")

\* The JSON key each value-returning operation takes its result from.
ExpectedField ==
    CASE last.op = "DiscoverReaders" -> "data"
      [] last.op = "RegisterReader" -> "ip_address"
      [] last.op = "StartNewRPCSession" -> "sdk_rpc_session_token"
      [] last.op = "GetNewConnectionToken" -> "secret"
      [] last.op = "CreatePaymentIntent" -> "id"

BodyUnusable ==
    \/ last.reply.res.Body.t = "malformed"
    \/ /\ last.reply.res.Body.t = "object"
       /\ ~Has(last.reply.res.Body.o, ExpectedField)

\* C9: for the five value-returning operations, a 200 response whose body is
\* malformed JSON or lacks the expected field yields a nil error and a
\* zero-valued result: the decode error is not returned.
C9_DecodeErrorDiscarded ==
    (Called /\ last.op \in ValueOperations /\ GotResponse
        /\ Status = StatusOK /\ BodyUnusable)
        => /\ ~last.out.panicked
           /\ last.out.err = NilErr
           /\ last.out.result = EmptyResult

\* CreatePaymentIntent got a 200 response with malformed JSON.
C9_Witness ==
    /\ Called
    /\ last.op = "CreatePaymentIntent"
    /\ GotResponse
    /\ Status = StatusOK
    /\ last.reply.res.Body = JMalformed
    /\ last.out.err = NilErr
    /\ last.out.result = ""

\* C10: when the transport returns an error, the operation neither reads the
\* status nor decodes nor closes the body of the absent response; it returns
\* at once with an empty result and a non-nil error: the transport's error
\* for the five value-returning operations, the sentinel for
\* CapturePaymentIntent.
C10_TransportErrorReturnsAtOnce ==
    (Called /\ last.reply.err # NilErr)
        => /\ ~last.out.panicked
           /\ last.out.statusReads = 0
           /\ last.out.decodes = 0
           /\ last.out.closes = 0
           /\ Len(last.out.requests) = 1
           /\ last.out.result = EmptyResult
           /\ last.out.err # NilErr
           /\ IF last.op = "CapturePaymentIntent"
              THEN last.out.err = ErrCapturePaymentIntentFailed
              ELSE last.out.err = last.reply.err

\* DiscoverReaders met a refused connection: there is no response.
C10_Witness ==
    /\ Called
    /\ last.op = "DiscoverReaders"
    /\ last.reply.err = TransportError("connection refused")
    /\ last.reply.res.nil
    /\ last.out.err = TransportError("connection refused")
    /\ last.out.result = <<>>

====
